---- MODULE Spec2Model ----
(***************************************************************************)
(* A model of the two status-line modules of cc_statusline:                *)
(*   MCPStatusModule   (src/src/cc_statusline/modules/mcp_status.py)       *)
(*   SessionTimeModule (src/src/cc_statusline/modules/session_time.py)     *)
(*                                                                         *)
(* Times are integers in milliseconds.  time.time() and datetime.now()     *)
(* are read from the variable now, which advances between calls, while a   *)
(* call is blocked in the probe subprocess, and between two readings of    *)
(* the clock in one get_output() call.  Non-ASCII literals of the          *)
(* source (texts, icons) are written as ASCII strings; the comment at each *)
(* definition gives the source literal.                                    *)
(***************************************************************************)
EXTENDS Integers, Sequences, FiniteSets, TLC

VARIABLES
    now,            \* the clock (ms)
    \* ---- the environment of MCPStatusModule
    probeEnv,       \* what `claude mcp list` does when it is run
    configEnv,      \* the three candidate config files, in probing order
    \* ---- MCPStatusModule instance
    servers,        \* self._servers: name -> MCPServerInfo
    last_update,    \* self._last_update (0 = never refreshed)
    \* ---- observation of the most recent MCPStatusModule call
    mcpOp,          \* the method called
    mcpRet,         \* its return value (NoRet for a method returning None)
    mcpRaised,      \* the exception that left the call (NoException if none)
    mcpProbes,      \* the number of probe-command invocations it made
    mcpOpened,      \* the candidate config files it opened, in order
    \* ---- history: whether initialize() was called on the instance
    mcpInitialized,
    \* ---- the environment of SessionTimeModule
    stateFile,      \* the session's state file
    \* ---- SessionTimeModule instance
    start_time,     \* self._start_time
    last_elapsed,   \* self._last_elapsed
    format,         \* self._format
    context,        \* self._context
    total_duration_ms,  \* self._total_duration_ms
    \* ---- observation of the most recent SessionTimeModule call
    sesOp,          \* the method called
    sesArg,         \* the fmt given to set_format ("" for the other methods)
    sesRet,         \* its return value
    sesRaised,      \* the exception that left the call
    sesReads,       \* the number of times it opened the state file to read
    sesWrites,      \* the number of times it wrote the state file
    \* ---- history: whether initialize() was called on the instance
    sesInitialized,
    \* ---- history: progress through reset(), cleanup(), a fresh instance,
    \* initialize(), and the start_time and format reset() left
    roundTrip

mcpVars == <<probeEnv, configEnv, servers, last_update,
             mcpOp, mcpRet, mcpRaised, mcpProbes, mcpOpened, mcpInitialized>>

sesVars == <<stateFile, start_time, last_elapsed, format, context,
             total_duration_ms, sesOp, sesArg, sesRet, sesRaised, sesReads, sesWrites,
             sesInitialized, roundTrip>>

vars == <<now, mcpVars, sesVars>>

\* Python's None where the other values are strings, the return value of a
\* method that returns None (or of a call that raised), and the absence of
\* an exception.
None == "None"
NoRet == [kind |-> "None"]
NoException == "NoException"

----------------------------------------------------------------------------
(* Decimal rendering of integers, as Python's str()/f"{n}" does it.        *)

Digits == <<"0", "1", "2", "3", "4", "5", "6", "7", "8", "9">>

RECURSIVE IntToStr(_)
IntToStr(n) ==
    IF n < 0 THEN "-" \o IntToStr(-n)
    ELSE IF n < 10 THEN Digits[n + 1]
    ELSE IntToStr(n \div 10) \o Digits[(n % 10) + 1]

RECURSIVE Join(_, _)
\* sep.join(parts)
Join(sep, parts) ==
    IF parts = << >> THEN ""
    ELSE IF Len(parts) = 1 THEN parts[1]
    ELSE parts[1] \o sep \o Join(sep, Tail(parts))

----------------------------------------------------------------------------
(* MCPStatusModule: bounds and the environment's values                    *)

\* self._cache_timeout = 5.0 seconds
CacheTimeout == 5000

\* The first clock value of the MCP specifications (the clock is epoch
\* time, so it is never 0, the "never refreshed" sentinel of _last_update).
McpT0 == 1000
\* The clock values are McpT0 + k * CacheTimeout for k up to MaxMcpTick, and
\* the first value that is more than CacheTimeout after McpT0.
MaxMcpTick == 2

McpTimePoints ==
    { McpT0 + k * CacheTimeout : k \in 0..MaxMcpTick }
        \cup { McpT0 + CacheTimeout + 1 }

\* A line of the probe's stdout, by the features _parse_mcp_list_output
\* reads: whether it is blank after strip(), whether it starts with
\* "Checking", whether it contains the connected marker, and the stripped
\* text before its first colon.
Line(blank, checking, marker, head) ==
    [blank |-> blank, checking |-> checking, marker |-> marker, head |-> head]

BlankLine == Line(TRUE, FALSE, FALSE, "")
CheckingLine == Line(FALSE, TRUE, FALSE, "Checking MCP server health...")
ConnectedLine(n) == Line(FALSE, FALSE, TRUE, n)
FailedLine(n) == Line(FALSE, FALSE, FALSE, n)

\* The outcomes of subprocess.run(["claude", "mcp", "list"], timeout=10).
ProbeExit0(stdout) == [kind |-> "exit0", stdout |-> stdout]
ProbeNonZero(stdout) == [kind |-> "nonzero", stdout |-> stdout]
ProbeTimeout == [kind |-> "timeout", stdout |-> << >>]
ProbeNotFound == [kind |-> "notfound", stdout |-> << >>]
ProbePermission == [kind |-> "permission", stdout |-> << >>]

ProbeOutcomes ==
    { ProbeExit0(<<CheckingLine, BlankLine, ConnectedLine("a"), FailedLine("b")>>),
      ProbeExit0(<<ConnectedLine("a"), ConnectedLine("b")>>),
      ProbeNonZero(<<ConnectedLine("a")>>),
      ProbeTimeout,
      ProbeNotFound,
      ProbePermission }

\* A value of the mcpServers mapping: whether it is a JSON object, its
\* "command" (None when absent), and its "args" ("absent", a list of
\* strings, or "invalid": anything str.join rejects).
ServerConfig(isDict, command, argsKind, args) ==
    [isDict |-> isDict, command |-> command, argsKind |-> argsKind, args |-> args]

FullConfig == ServerConfig(TRUE, "npx", "strings", <<"-y", "srv">>)
BareConfig == ServerConfig(TRUE, None, "absent", << >>)
StringConfig == ServerConfig(FALSE, None, "absent", << >>)
BadArgsConfig == ServerConfig(TRUE, "npx", "invalid", << >>)

\* A candidate config file: missing, unreadable (open() raises OSError),
\* malformed (json.load raises JSONDecodeError), nonobject (JSON that is
\* not an object), badservers (an object whose mcpServers is not an
\* object), or object with the mcpServers items in file order.
ConfigFile(kind, items) == [kind |-> kind, items |-> items]
Item(n, cfg) == [name |-> n, config |-> cfg]

MissingFile == ConfigFile("missing", << >>)
UnreadableFile == ConfigFile("unreadable", << >>)
MalformedFile == ConfigFile("malformed", << >>)
NonObjectFile == ConfigFile("nonobject", << >>)
BadServersFile == ConfigFile("badservers", << >>)
ObjectFile(items) == ConfigFile("object", items)

\* Path.home()/".claude"/"mcp.json"
HomeFiles ==
    { MissingFile, UnreadableFile, MalformedFile, NonObjectFile,
      ObjectFile(<< >>),
      ObjectFile(<<Item("a", FullConfig), Item("c", StringConfig)>>) }
\* Path.home()/".config"/"claude"/"mcp.json"
XdgFiles ==
    { MissingFile, BadServersFile,
      ObjectFile(<<Item("b", BareConfig), Item("a", BadArgsConfig)>>) }
\* Path(os.environ.get("CLAUDE_CONFIG_DIR", ""))/"mcp.json"
EnvFiles ==
    { MissingFile, ObjectFile(<<Item("c", FullConfig)>>) }

ConfigEnvs ==
    { <<h, x, e>> : h \in HomeFiles, x \in XdgFiles, e \in EnvFiles }

----------------------------------------------------------------------------
(* MCPStatusModule: the pure parts                                         *)

\* MCPServerInfo(name, status, command)
MCPServerInfo(name, status, command) ==
    [name |-> name, status |-> status, command |-> command]

\* The result of a helper that may raise: the exception that propagates
\* (NoException if none) and the list it returns.
Result(raised, list) == [raised |-> raised, list |-> list]

\* ParseLine with a server line that lacks the connected marker recorded
\* with status "error".
ParseLineFailedAsError(line, rest) ==
    IF line.blank \/ line.checking THEN rest
    ELSE IF line.marker
    THEN <<MCPServerInfo(line.head, "running", None)>> \o rest
    ELSE <<MCPServerInfo(line.head, "error", None)>> \o rest

\* One line of the loop of _parse_mcp_list_output, before the records of
\* the lines after it.
ParseLine(line, rest) ==
    IF line.blank \/ line.checking THEN rest
    ELSE IF line.marker
    THEN <<MCPServerInfo(line.head, "running", None)>> \o rest
    ELSE rest

RECURSIVE _parse_mcp_list_output(_)
_parse_mcp_list_output(lines) ==
    IF lines = << >> THEN << >>
    ELSE ParseLine(Head(lines), _parse_mcp_list_output(Tail(lines)))

_get_from_claude_command(probe) ==
    CASE probe.kind = "exit0" -> Result(NoException, _parse_mcp_list_output(probe.stdout))
      [] probe.kind = "nonzero" -> Result(NoException, << >>)
      [] probe.kind = "timeout" -> Result(NoException, << >>)
      [] probe.kind = "notfound" -> Result(NoException, << >>)
      [] probe.kind = "permission" -> Result("PermissionError", << >>)

\* The command stored for one mcpServers item, or the exception the
\* f-string's join raises.
CommandOf(cfg) ==
    IF ~cfg.isDict THEN [raised |-> NoException, command |-> None]
    ELSE IF cfg.command = None THEN [raised |-> NoException, command |-> None]
    ELSE IF cfg.argsKind = "invalid" THEN [raised |-> "TypeError", command |-> None]
    ELSE [raised |-> NoException,
          command |-> cfg.command \o " " \o Join(" ", cfg.args)]

\* One item of the loop of _parse_mcp_config: c is its command, rest the
\* result of the items after it.
ParseItem(name, c, rest) ==
    IF c.raised # NoException THEN Result(c.raised, << >>)
    ELSE IF rest.raised # NoException THEN rest
    ELSE Result(NoException,
                <<MCPServerInfo(name, "unknown", c.command)>> \o rest.list)

RECURSIVE ParseItems(_)
ParseItems(items) ==
    IF items = << >> THEN Result(NoException, << >>)
    ELSE ParseItem(Head(items).name, CommandOf(Head(items).config),
                   ParseItems(Tail(items)))

_parse_mcp_config(file) ==
    CASE file.kind = "unreadable" -> Result(NoException, << >>)
      [] file.kind = "malformed" -> Result(NoException, << >>)
      [] file.kind = "nonobject" -> Result("AttributeError", << >>)
      [] file.kind = "badservers" -> Result("AttributeError", << >>)
      [] file.kind = "object" -> ParseItems(file.items)

\* The index of the last candidate that exists, 0 if none does.
LastExisting(cands) ==
    IF \E i \in 1..Len(cands) : cands[i].kind # "missing"
    THEN CHOOSE i \in 1..Len(cands) :
            /\ cands[i].kind # "missing"
            /\ \A j \in (i + 1)..Len(cands) : cands[j].kind = "missing"
    ELSE 0

\* The index of the first candidate that exists, 0 if none does.
FirstExisting(cands) ==
    IF \E i \in 1..Len(cands) : cands[i].kind # "missing"
    THEN CHOOSE i \in 1..Len(cands) :
            /\ cands[i].kind # "missing"
            /\ \A j \in 1..(i - 1) : cands[j].kind = "missing"
    ELSE 0

\* The result of _get_from_config when candidate i was parsed with result r.
ConfigResult(i, r) == [raised |-> r.raised, list |-> r.list, opened |-> <<i>>]

\* _get_from_config when candidate i is the first that exists (0: none).
ParseCandidate(cands, i) ==
    IF i = 0 THEN [raised |-> NoException, list |-> << >>, opened |-> << >>]
    ELSE ConfigResult(i, _parse_mcp_config(cands[i]))

_get_from_config(cands) == ParseCandidate(cands, FirstExisting(cands))

\* _detect_mcp_servers from the result p of the probe and c of the config.
\* probes and opened say what the call touched before it returned or
\* raised: the config is not read when the probe raises.
DetectResult(p, c) ==
    IF p.raised # NoException
    THEN [raised |-> p.raised, list |-> << >>, probes |-> 1, opened |-> << >>]
    ELSE IF c.raised # NoException
    THEN [raised |-> c.raised, list |-> << >>, probes |-> 1, opened |-> c.opened]
    ELSE [raised |-> NoException, list |-> p.list \o c.list,
          probes |-> 1, opened |-> c.opened]

_detect_mcp_servers(probe, cands) ==
    DetectResult(_get_from_claude_command(probe), _get_from_config(cands))

EmptyDict == [n \in {} |-> None]

\* d with the record last stored under its name.
DictPut(d, last) ==
    [n \in DOMAIN d \cup {last.name} |-> IF n = last.name THEN last ELSE d[n]]

RECURSIVE DictByName(_)
\* {s.name: s for s in servers}: a later record replaces an earlier one.
DictByName(list) ==
    IF list = << >> THEN EmptyDict
    ELSE DictPut(DictByName(SubSeq(list, 1, Len(list) - 1)), list[Len(list)])

\* The fields after _refresh_servers whose _detect_mcp_servers gave d, from
\* fields (srv, lu), with t the clock value read after the probe returned.
RefreshResult(d, srv, lu, t) ==
    IF d.raised # NoException
    THEN [raised |-> d.raised, servers |-> srv, last_update |-> lu,
          probes |-> d.probes, opened |-> d.opened]
    ELSE [raised |-> NoException, servers |-> DictByName(d.list),
          last_update |-> t, probes |-> d.probes, opened |-> d.opened]

_refresh_servers(srv, lu, probe, cands, t) ==
    RefreshResult(_detect_mcp_servers(probe, cands), srv, lu, t)

\* The fields when no refresh is run.
NoRefresh(srv, lu) ==
    [raised |-> NoException, servers |-> srv, last_update |-> lu,
     probes |-> 0, opened |-> << >>]

\* tooltip is not modelled.
ModuleOutput(text, icon, color, status) ==
    [kind |-> "ModuleOutput",
     text |-> text, icon |-> icon, color |-> color, status |-> status]

CountStatus(srv, st) == Cardinality({n \in DOMAIN srv : srv[n].status = st})

\* text="无 MCP 服务器", icon="🔌"
NoServersOutput == ModuleOutput("no MCP servers", "plug", "gray", "SUCCESS")

\* f"{running}/{total} 运行中"
RunningText(running, total) ==
    IntToStr(running) \o "/" \o IntToStr(total) \o " running"
\* f"{errors} 错误"
ErrorsText(errors) == IntToStr(errors) \o " errors"

\* Summarise with the text chosen as the comment of get_output words it
\* ("N errors" whenever the icon is not the green one).
SummariseTextByIcon(running, errors, total) ==
    IF running = total
    THEN ModuleOutput(RunningText(running, total), "green_circle", "green", "SUCCESS")
    ELSE IF errors > 0
    THEN ModuleOutput(ErrorsText(errors), "red_circle", "red", "ERROR")
    ELSE ModuleOutput(ErrorsText(errors), "yellow_circle", "yellow", "WARNING")

\* The output of get_output for a non-empty cache with these counts.
\* Icons: "🔴" red_circle, "🟡" yellow_circle, "🟢" green_circle.
Summarise(running, errors, total) ==
    ModuleOutput(
        IF running = total THEN RunningText(running, total)
        ELSE IF errors > 0 THEN ErrorsText(errors)
        ELSE RunningText(running, total),
        IF errors > 0 THEN "red_circle"
        ELSE IF running < total THEN "yellow_circle" ELSE "green_circle",
        IF errors > 0 THEN "red"
        ELSE IF running < total THEN "yellow" ELSE "green",
        IF errors > 0 THEN "ERROR"
        ELSE IF running < total THEN "WARNING" ELSE "SUCCESS")

\* get_output after the two refresh branches: the summary of self._servers.
SummaryOutput(srv) ==
    IF DOMAIN srv = {} THEN NoServersOutput
    ELSE Summarise(CountStatus(srv, "running"), CountStatus(srv, "error"),
                   Cardinality(DOMAIN srv))

\* CacheExpired with the boundary included.
CacheExpiredAtTimeout(srv, lu, t) == DOMAIN srv # {} /\ t - lu >= CacheTimeout

\* The cache-expiry test of get_output, at clock value t.
CacheExpired(srv, lu, t) == DOMAIN srv # {} /\ t - lu > CacheTimeout

\* The lazy first-fetch test of get_output.
NeverFetched(srv, lu) == DOMAIN srv = {} /\ lu = 0

----------------------------------------------------------------------------
(* MCPStatusModule: the operations                                         *)

\* Whether initialize() was called on the instance, after a call of op.
InitializedAfter(op, was) ==
    CASE op = "__init__" -> FALSE
      [] op = "initialize" -> TRUE
      [] OTHER -> was

Observe(op, ret, raised, probes, opened) ==
    /\ mcpOp' = op
    /\ mcpRet' = ret
    /\ mcpRaised' = raised
    /\ mcpProbes' = probes
    /\ mcpOpened' = opened
    /\ mcpInitialized' = InitializedAfter(op, mcpInitialized)

\* __init__
MCPConstruct ==
    /\ servers' = EmptyDict
    /\ last_update' = 0
    /\ Observe("__init__", NoRet, NoException, 0, << >>)
    /\ UNCHANGED <<now, probeEnv, configEnv, sesVars>>

\* initialize(): pass
MCPInitialize ==
    /\ Observe("initialize", NoRet, NoException, 0, << >>)
    /\ UNCHANGED <<now, probeEnv, configEnv, servers, last_update, sesVars>>

\* The step of a call of op that leaves the fields and the observation of
\* r and returns ret, with the clock at t when it is done.
McpCall(op, r, ret, t) ==
    /\ servers' = r.servers
    /\ last_update' = r.last_update
    /\ Observe(op, ret, r.raised, r.probes, r.opened)
    /\ now' = t
    /\ UNCHANGED <<probeEnv, configEnv, sesVars>>

\* refresh(): the probe returns at clock value t.
MCPRefresh ==
    \E t \in McpTimePoints :
        /\ t >= now
        /\ McpCall("refresh",
                   _refresh_servers(servers, last_update, probeEnv, configEnv, t),
                   NoRet, t)

\* The lazy first-fetch branch of get_output(), from fields (srv, lu).
FirstFetch(srv, lu, probe, cands, t) ==
    IF NeverFetched(srv, lu) THEN _refresh_servers(srv, lu, probe, cands, t)
    ELSE NoRefresh(srv, lu)

\* The cache-expiry branch of get_output(), from the fields r1 the first
\* branch left: t1 is the clock value the expiry test reads, t2 the one a
\* refresh it starts stores.
ExpiryFetch(r1, probe, cands, t1, t2) ==
    IF r1.raised = NoException /\ CacheExpired(r1.servers, r1.last_update, t1)
    THEN _refresh_servers(r1.servers, r1.last_update, probe, cands, t2)
    ELSE [r1 EXCEPT !.probes = 0, !.opened = << >>]

\* The last clock value get_output() read: the expiry test reads the clock
\* only when the first branch did not raise and the cache is not empty
\* ("self._servers and ..." short-circuits); tf is the clock value when the
\* first branch was done.
ClockRead(r1, r2, tf, t1, t2) ==
    IF r2.probes > 0 THEN t2
    ELSE IF r1.raised = NoException /\ DOMAIN r1.servers # {} THEN t1
    ELSE tf

\* get_output() whose branches left r1 and r2: the fields after it, what it
\* returns or raises, what it touched, and the clock when it is done.
OutputResult(r1, r2, clock) ==
    [servers |-> r2.servers,
     last_update |-> r2.last_update,
     raised |-> r2.raised,
     ret |-> IF r2.raised = NoException THEN SummaryOutput(r2.servers)
             ELSE NoRet,
     probes |-> r1.probes + r2.probes,
     opened |-> r1.opened \o r2.opened,
     clock |-> clock]

\* get_output() after both branches.
AfterExpiryFetch(r1, r2, tf, t1, t2) ==
    OutputResult(r1, r2, ClockRead(r1, r2, tf, t1, t2))

\* get_output() after its first branch left r1 at clock value tf.
AfterFirstFetch(r1, probe, cands, tf, t1, t2) ==
    AfterExpiryFetch(r1, ExpiryFetch(r1, probe, cands, t1, t2), tf, t1, t2)

\* What get_output() does from fields (srv, lu) at clock value t0.  Each
\* call of _get_current_time() is a reading of the clock of its own: t is
\* the value the first-fetch refresh stores, t1 >= t the value the expiry
\* test reads after it (t0 when there was no first fetch), t2 >= t1 the
\* value a refresh started by the expiry branch stores.
GetOutputResult(srv, lu, probe, cands, t0, t, t1, t2) ==
    AfterFirstFetch(FirstFetch(srv, lu, probe, cands, t), probe, cands,
                    IF NeverFetched(srv, lu) THEN t ELSE t0,
                    IF NeverFetched(srv, lu) THEN t1 ELSE t0,
                    t2)

\* The step of a get_output() with result g.
GetOutputCall(g) == McpCall("get_output", g, g.ret, g.clock)

MCPGetOutput ==
    \E t, t1, t2 \in McpTimePoints :
        /\ now <= t /\ t <= t1 /\ t1 <= t2
        /\ GetOutputCall(
              GetOutputResult(servers, last_update, probeEnv, configEnv,
                              now, t, t1, t2))

\* cleanup(): self._servers.clear()
MCPCleanup ==
    /\ servers' = EmptyDict
    /\ Observe("cleanup", NoRet, NoException, 0, << >>)
    /\ UNCHANGED <<now, probeEnv, configEnv, last_update, sesVars>>

\* The environment: the probe's behaviour or the config files change.
ProbeChanges ==
    /\ \E p \in ProbeOutcomes : p # probeEnv /\ probeEnv' = p
    /\ Observe("env", NoRet, NoException, 0, << >>)
    /\ UNCHANGED <<now, configEnv, servers, last_update, sesVars>>

ConfigChanges ==
    /\ \E i \in 1..Len(configEnv) :
          \E c \in ConfigEnvs :
            /\ c # configEnv
            /\ \A j \in (1..Len(configEnv)) \ {i} : c[j] = configEnv[j]
            /\ configEnv' = c
    /\ Observe("env", NoRet, NoException, 0, << >>)
    /\ UNCHANGED <<now, probeEnv, servers, last_update, sesVars>>

\* Time passes between calls.
McpTick ==
    /\ \E t \in McpTimePoints : t > now /\ now' = t
    /\ Observe("tick", NoRet, NoException, 0, << >>)
    /\ UNCHANGED <<probeEnv, configEnv, servers, last_update, sesVars>>

----------------------------------------------------------------------------
(* SessionTimeModule: values and bounds                                    *)

\* None where the other values are records; a datetime and a timedelta, in
\* milliseconds; a JSON number and a JSON string of a context payload.
PyNone == [tag |-> "None"]
Datetime(t) == [tag |-> "datetime", ms |-> t]
Timedelta(d) == [tag |-> "timedelta", ms |-> d]
IntValue(n) == [tag |-> "int", v |-> n]
StrValue == [tag |-> "str", v |-> 0]
Absent == [tag |-> "absent"]

\* The first clock value of the session specifications, the clock's step
\* (30 minutes) and the number of steps.
SesT0 == 6000000
HalfHour == 1800000
MaxSesTick == 4

SesTimePoints ==
    { SesT0 + k * HalfHour : k \in 0..MaxSesTick } \cup { SesT0 + 500 }

\* The total_duration_ms values a context payload carries.
Durations == {0, 3599999, 3600000, 7199999, 7200000, 7500000}

\* A context payload: its "cost" ("absent", "object", or "null": not a
\* mapping) and the "total_duration_ms" of that object (Absent, PyNone for
\* null, a number, or a string).
Payload(cost, duration) == [cost |-> cost, duration |-> duration]

EmptyContext == Payload("absent", Absent)

Payloads ==
    { EmptyContext, Payload("object", Absent), Payload("object", PyNone),
      Payload("null", Absent), Payload("object", StrValue) }
        \cup { Payload("object", IntValue(d)) : d \in Durations }

\* A JSON value of the state file's "start_time": absent, null, a number,
\* or a string: empty, not ISO-8601, or ISO-8601 with its whole seconds and
\* the digits of its fraction (none when the fraction is omitted).
JsonAbsent == [tag |-> "absent", valid |-> FALSE, whole |-> 0, frac |-> << >>]
JsonNull == [tag |-> "null", valid |-> FALSE, whole |-> 0, frac |-> << >>]
JsonNumber == [tag |-> "number", valid |-> FALSE, whole |-> 0, frac |-> << >>]
EmptyString == [tag |-> "empty", valid |-> FALSE, whole |-> 0, frac |-> << >>]
GarbageString == [tag |-> "str", valid |-> FALSE, whole |-> 0, frac |-> << >>]
IsoString(whole, frac) == [tag |-> "str", valid |-> TRUE, whole |-> whole, frac |-> frac]

\* isoformat(timespec="seconds"): the fraction is never written.
isoformat_seconds(t) == IsoString(t \div 1000, << >>)

\* datetime.isoformat(): the fraction is written (6 digits) only when the
\* microsecond field is not 0.
isoformat(t) ==
    LET ms == t % 1000
    IN  IsoString(t \div 1000,
                  IF ms = 0 THEN << >>
                  ELSE <<ms \div 100, (ms \div 10) % 10, ms % 10, 0, 0, 0>>)

\* datetime.fromisoformat() of a valid string.
fromisoformat(str) ==
    str.whole * 1000
        + (IF str.frac = << >> THEN 0
           ELSE str.frac[1] * 100 + str.frac[2] * 10 + str.frac[3])

\* The state file: missing, unreadable (open() raises OSError), malformed
\* (JSONDecodeError), nonobject (JSON that is not an object), or an object
\* with its "start_time" and "format" ("<absent>" when it has none).
FormatAbsent == "<absent>"
StateFile(kind, start, fmt) == [kind |-> kind, start |-> start, format |-> fmt]

NoStateFile == StateFile("missing", JsonAbsent, FormatAbsent)
UnreadableStateFile == StateFile("unreadable", JsonAbsent, FormatAbsent)
MalformedStateFile == StateFile("malformed", JsonAbsent, FormatAbsent)
NonObjectStateFile == StateFile("nonobject", JsonAbsent, FormatAbsent)
StateObject(start, fmt) == StateFile("object", start, fmt)

\* The state files a first instance may find: 90 minutes before SesT0, and
\* half a second before it.
InitialStateFiles ==
    { NoStateFile, UnreadableStateFile, MalformedStateFile, NonObjectStateFile,
      StateObject(JsonAbsent, FormatAbsent),
      StateObject(JsonNull, "long"),
      StateObject(EmptyString, "short"),
      StateObject(GarbageString, "long"),
      StateObject(JsonNumber, "long"),
      StateObject(isoformat(SesT0 - 3 * HalfHour), FormatAbsent),
      StateObject(isoformat(SesT0 - 3 * HalfHour), "long"),
      StateObject(isoformat(SesT0 - 500), "bogus") }

----------------------------------------------------------------------------
(* SessionTimeModule: the pure parts                                       *)

\* _load_state from fields (st, fmt): the fields after it, the exception
\* that propagates, and whether the file was opened.
_load_state(file, st, fmt) ==
    CASE file.kind = "missing" ->
            [raised |-> NoException, start_time |-> st, format |-> fmt, reads |-> 0]
      [] file.kind \in {"unreadable", "malformed"} ->
            [raised |-> NoException, start_time |-> st, format |-> fmt, reads |-> 1]
      [] file.kind = "nonobject" ->
            [raised |-> "AttributeError", start_time |-> st, format |-> fmt, reads |-> 1]
      [] file.kind = "object" ->
            LET loadedFormat == IF file.format = FormatAbsent THEN "short"
                                ELSE file.format
            IN  IF file.start.tag \in {"absent", "null", "empty"}
                THEN [raised |-> NoException, start_time |-> st,
                      format |-> loadedFormat, reads |-> 1]
                ELSE IF file.start.tag = "number"
                THEN [raised |-> "TypeError", start_time |-> st,
                      format |-> fmt, reads |-> 1]
                ELSE IF ~file.start.valid
                THEN [raised |-> NoException, start_time |-> st,
                      format |-> fmt, reads |-> 1]
                ELSE [raised |-> NoException,
                      start_time |-> Datetime(fromisoformat(file.start)),
                      format |-> loadedFormat, reads |-> 1]

\* The file _save_state writes.  The state directory is taken to be
\* writable: the handler that swallows a failed write is not exercised.
_save_state(st, fmt) ==
    StateObject(IF st = PyNone THEN JsonNull ELSE isoformat(st.ms), fmt)

\* _calculate_elapsed at clock value t: what it returns (PyNone or a
\* timedelta), the exception that propagates, and _last_elapsed after it.
_calculate_elapsed(duration, st, le, t) ==
    IF duration # PyNone
    THEN IF duration.tag = "int"
         THEN [raised |-> NoException, ret |-> Timedelta(duration.v),
               last_elapsed |-> Timedelta(duration.v)]
         ELSE [raised |-> "TypeError", ret |-> PyNone, last_elapsed |-> le]
    ELSE IF st = PyNone
    THEN [raised |-> NoException, ret |-> PyNone, last_elapsed |-> le]
    ELSE [raised |-> NoException, ret |-> Timedelta(t - st.ms),
          last_elapsed |-> Timedelta(t - st.ms)]

\* int(elapsed.total_seconds()): truncation toward zero.
TotalSeconds(ms) == IF ms >= 0 THEN ms \div 1000 ELSE -((-ms) \div 1000)

\* f"{n:02d}"
Pad2(n) == LET str == IntToStr(n) IN IF Len(str) < 2 THEN "0" \o str ELSE str

\* _format_elapsed with the hours of the long format wrapped at a day and
\* the minutes of the short format not reduced by the hours.
_format_elapsed_wrapping(fmt, ms) ==
    LET total_seconds == TotalSeconds(ms)
    IN  IF fmt = "long"
        THEN Pad2((total_seconds \div 3600) % 24) \o ":"
                \o Pad2((total_seconds % 3600) \div 60) \o ":"
                \o Pad2(total_seconds % 60)
        ELSE IF total_seconds >= 3600
        THEN IntToStr(total_seconds \div 3600) \o "h "
                \o IntToStr(total_seconds \div 60) \o "m"
        ELSE IF total_seconds >= 60
        THEN IntToStr(total_seconds \div 60) \o "m "
                \o IntToStr(total_seconds % 60) \o "s"
        ELSE IntToStr(total_seconds) \o "s"

_format_elapsed(fmt, ms) ==
    LET total_seconds == TotalSeconds(ms)
    IN  IF fmt = "long"
        THEN LET hours == total_seconds \div 3600
                 remainder == total_seconds % 3600
                 minutes == remainder \div 60
                 seconds == remainder % 60
             IN  Pad2(hours) \o ":" \o Pad2(minutes) \o ":" \o Pad2(seconds)
        ELSE IF total_seconds >= 3600
        THEN IntToStr(total_seconds \div 3600) \o "h "
                \o IntToStr((total_seconds % 3600) \div 60) \o "m"
        ELSE IF total_seconds >= 60
        THEN IntToStr(total_seconds \div 60) \o "m "
                \o IntToStr(total_seconds % 60) \o "s"
        ELSE IntToStr(total_seconds) \o "s"

\* hours = elapsed.total_seconds() / 3600, compared with 2 and with 1.
MsPerHour == 3600000

\* ColorOf with the band boundaries excluded.
ColorOfStrict(ms) ==
    IF ms > 2 * MsPerHour THEN "green"
    ELSE IF ms > MsPerHour THEN "yellow"
    ELSE "blue"

ColorOf(ms) ==
    IF ms >= 2 * MsPerHour THEN "green"
    ELSE IF ms >= MsPerHour THEN "yellow"
    ELSE "blue"

\* icon="⏱️"
PlaceholderOutput == ModuleOutput("--:--", "stopwatch", "gray", "SUCCESS")

\* get_output at clock value t.
SessionOutput(duration, st, le, fmt, t) ==
    LET c == _calculate_elapsed(duration, st, le, t)
    IN  [raised |-> c.raised,
         last_elapsed |-> c.last_elapsed,
         ret |-> IF c.raised # NoException THEN NoRet
                 ELSE IF c.ret = PyNone THEN PlaceholderOutput
                 ELSE ModuleOutput(_format_elapsed(fmt, c.ret.ms), "stopwatch",
                                   ColorOf(c.ret.ms), "SUCCESS")]

\* No validation of fmt.
AnyFormat(fmt) == TRUE

\* fmt in ("short", "long")
ValidFormat(fmt) == fmt \in {"short", "long"}

\* context.get("cost", {}).get("total_duration_ms"): the exception that
\* propagates and the value assigned to _total_duration_ms.
DurationOf(payload, old) ==
    CASE payload.cost = "absent" -> [raised |-> NoException, value |-> PyNone]
      [] payload.cost = "null" -> [raised |-> "AttributeError", value |-> old]
      [] payload.cost = "object" ->
            [raised |-> NoException,
             value |-> IF payload.duration = Absent THEN PyNone
                       ELSE payload.duration]

----------------------------------------------------------------------------
(* SessionTimeModule: the operations                                       *)

IdleTrip == [phase |-> 0, start |-> PyNone, format |-> ""]

\* roundTrip after a call of op that leaves start_time st and format fmt.
TripAfter(op, st, fmt) ==
    CASE op = "reset" -> [phase |-> 1, start |-> st, format |-> fmt]
      [] op = "cleanup" /\ roundTrip.phase = 1 -> [roundTrip EXCEPT !.phase = 2]
      [] op = "__init__" /\ roundTrip.phase = 2 -> [roundTrip EXCEPT !.phase = 3]
      [] op = "initialize" /\ roundTrip.phase = 3 -> [roundTrip EXCEPT !.phase = 4]
      [] OTHER -> IdleTrip

\* st and fmt are start_time and format after the call.
SesObserve(op, ret, raised, reads, writes, st, fmt) ==
    /\ sesOp' = op
    /\ sesArg' = ""
    /\ sesRet' = ret
    /\ sesRaised' = raised
    /\ sesReads' = reads
    /\ sesWrites' = writes
    /\ sesInitialized' = InitializedAfter(op, sesInitialized)
    /\ roundTrip' = TripAfter(op, st, fmt)

\* __init__: a fresh instance (the state file stays as it is).
SessionConstruct ==
    /\ start_time' = PyNone
    /\ last_elapsed' = PyNone
    /\ format' = "short"
    /\ context' = EmptyContext
    /\ total_duration_ms' = PyNone
    /\ SesObserve("__init__", NoRet, NoException, 0, 0, PyNone, "short")
    /\ UNCHANGED <<now, mcpVars, stateFile>>

\* start_time after initialize(), whose _load_state gave l, at clock value t:
\* "if self._start_time is None: self._start_time = datetime.now()" is
\* reached only when _load_state did not raise.
StartAfterLoad(l, t) ==
    IF l.raised = NoException /\ l.start_time = PyNone THEN Datetime(t)
    ELSE l.start_time

SessionInitialize ==
    /\ LET l == _load_state(stateFile, start_time, format)
           st == StartAfterLoad(l, now)
       IN  /\ start_time' = st
           /\ format' = l.format
           /\ SesObserve("initialize", NoRet, l.raised, l.reads, 0, st, l.format)
    /\ UNCHANGED <<now, mcpVars, stateFile, last_elapsed, context, total_duration_ms>>

SessionSetContext ==
    \E payload \in Payloads :
        /\ context' = payload
        /\ LET d == DurationOf(payload, total_duration_ms)
           IN  /\ total_duration_ms' = d.value
               /\ SesObserve("set_context", NoRet, d.raised, 0, 0, start_time, format)
        /\ UNCHANGED <<now, mcpVars, stateFile, start_time, last_elapsed, format>>

SessionRefresh ==
    /\ LET c == _calculate_elapsed(total_duration_ms, start_time, last_elapsed, now)
       IN  /\ last_elapsed' = c.last_elapsed
           /\ SesObserve("refresh", NoRet, c.raised, 0, 0, start_time, format)
    /\ UNCHANGED <<now, mcpVars, stateFile, start_time, format, context,
                   total_duration_ms>>

SessionSetFormat ==
    \E fmt \in {"short", "long", "bogus"} :
        /\ IF ValidFormat(fmt)
           THEN /\ format' = fmt
                /\ stateFile' = _save_state(start_time, fmt)
                /\ sesWrites' = 1
           ELSE /\ UNCHANGED <<format, stateFile>>
                /\ sesWrites' = 0
        /\ sesOp' = "set_format"
        /\ sesArg' = fmt
        /\ sesRet' = NoRet
        /\ sesRaised' = NoException
        /\ sesReads' = 0
        /\ roundTrip' = IdleTrip
        /\ UNCHANGED <<now, mcpVars, start_time, last_elapsed, context,
                       total_duration_ms, sesInitialized>>

SessionGetElapsed ==
    /\ SesObserve("get_elapsed",
                  IF last_elapsed = PyNone THEN NoRet
                  ELSE [kind |-> "timedelta", ms |-> last_elapsed.ms],
                  NoException, 0, 0, start_time, format)
    /\ UNCHANGED <<now, mcpVars, stateFile, start_time, last_elapsed, format,
                   context, total_duration_ms>>

\* reset() without its _save_state() call.
SessionResetNoSave ==
    /\ start_time' = Datetime(now)
    /\ last_elapsed' = PyNone
    /\ SesObserve("reset", NoRet, NoException, 0, 0, Datetime(now), format)
    /\ UNCHANGED <<now, mcpVars, stateFile, format, context, total_duration_ms>>

SessionReset ==
    /\ start_time' = Datetime(now)
    /\ last_elapsed' = PyNone
    /\ stateFile' = _save_state(Datetime(now), format)
    /\ SesObserve("reset", NoRet, NoException, 0, 1, Datetime(now), format)
    /\ UNCHANGED <<now, mcpVars, format, context, total_duration_ms>>

SessionGetOutput ==
    /\ LET o == SessionOutput(total_duration_ms, start_time, last_elapsed,
                              format, now)
       IN  /\ last_elapsed' = o.last_elapsed
           /\ SesObserve("get_output", o.ret, o.raised, 0, 0, start_time, format)
    /\ UNCHANGED <<now, mcpVars, stateFile, start_time, format, context,
                   total_duration_ms>>

SessionCleanup ==
    /\ stateFile' = _save_state(start_time, format)
    /\ SesObserve("cleanup", NoRet, NoException, 0, 1, start_time, format)
    /\ UNCHANGED <<now, mcpVars, start_time, last_elapsed, format, context,
                   total_duration_ms>>

\* Time passes between calls.
SesTick ==
    /\ \E t \in SesTimePoints : t > now /\ now' = t
    /\ sesOp' = "tick"
    /\ sesArg' = ""
    /\ sesRet' = NoRet
    /\ sesRaised' = NoException
    /\ sesReads' = 0
    /\ sesWrites' = 0
    /\ UNCHANGED <<mcpVars, stateFile, start_time, last_elapsed, format,
                   context, total_duration_ms, sesInitialized, roundTrip>>

----------------------------------------------------------------------------
(* Specifications                                                          *)

\* A constructed MCPStatusModule, untouched.
McpIdle ==
    /\ probeEnv = ProbeNotFound
    /\ configEnv = <<MissingFile, MissingFile, MissingFile>>
    /\ servers = EmptyDict
    /\ last_update = 0
    /\ mcpOp = "__init__"
    /\ mcpRet = NoRet
    /\ mcpRaised = NoException
    /\ mcpProbes = 0
    /\ mcpOpened = << >>
    /\ mcpInitialized = FALSE

\* A constructed SessionTimeModule, untouched, with no state file.
SesIdle ==
    /\ stateFile = NoStateFile
    /\ start_time = PyNone
    /\ last_elapsed = PyNone
    /\ format = "short"
    /\ context = EmptyContext
    /\ total_duration_ms = PyNone
    /\ sesOp = "__init__"
    /\ sesArg = ""
    /\ sesRet = NoRet
    /\ sesRaised = NoException
    /\ sesReads = 0
    /\ sesWrites = 0
    /\ sesInitialized = FALSE
    /\ roundTrip = IdleTrip

McpInit ==
    /\ now = McpT0
    /\ probeEnv \in ProbeOutcomes
    /\ configEnv \in ConfigEnvs
    /\ servers = EmptyDict
    /\ last_update = 0
    /\ mcpOp = "__init__"
    /\ mcpRet = NoRet
    /\ mcpRaised = NoException
    /\ mcpProbes = 0
    /\ mcpOpened = << >>
    /\ mcpInitialized = FALSE
    /\ SesIdle

McpNext ==
    \/ MCPConstruct
    \/ MCPInitialize
    \/ MCPRefresh
    \/ MCPGetOutput
    \/ MCPCleanup
    \/ ProbeChanges
    \/ ConfigChanges
    \/ McpTick

SpecMCP == McpInit /\ [][McpNext]_vars

\* Inputs of the summary: any cached server set over SummaryNames, with a
\* fresh cache, so that get_output() summarises it as it is.
SummaryNames == {"a", "b", "c"}
Statuses == {"running", "unknown", "error", "stopped"}

SummaryInit ==
    /\ now = McpT0
    /\ probeEnv = ProbeNotFound
    /\ configEnv = <<MissingFile, MissingFile, MissingFile>>
    /\ \E S \in SUBSET SummaryNames :
         \E st \in [S -> Statuses] :
            servers = [n \in S |-> MCPServerInfo(n, st[n], None)]
    /\ last_update = McpT0
    /\ mcpOp = "__init__"
    /\ mcpRet = NoRet
    /\ mcpRaised = NoException
    /\ mcpProbes = 0
    /\ mcpOpened = << >>
    /\ mcpInitialized = FALSE
    /\ SesIdle

SummaryNext == MCPGetOutput

SpecSummary == SummaryInit /\ [][SummaryNext]_vars

SessionInit ==
    /\ now = SesT0
    /\ McpIdle
    /\ stateFile \in InitialStateFiles
    /\ start_time = PyNone
    /\ last_elapsed = PyNone
    /\ format = "short"
    /\ context = EmptyContext
    /\ total_duration_ms = PyNone
    /\ sesOp = "__init__"
    /\ sesArg = ""
    /\ sesRet = NoRet
    /\ sesRaised = NoException
    /\ sesReads = 0
    /\ sesWrites = 0
    /\ sesInitialized = FALSE
    /\ roundTrip = IdleTrip

SessionNext ==
    \/ SessionConstruct
    \/ SessionInitialize
    \/ SessionSetContext
    \/ SessionRefresh
    \/ SessionSetFormat
    \/ SessionGetElapsed
    \/ SessionReset
    \/ SessionGetOutput
    \/ SessionCleanup
    \/ SesTick

SpecSession == SessionInit /\ [][SessionNext]_vars

\* Inputs of the formatter: an authoritative duration of h hours, m
\* minutes, s seconds and a fraction, under either format.
MaxFormatHours == 25
FormatMinutes == {0, 1, 5, 30, 59}
FormatSeconds == {0, 1, 30, 59}
FormatMillis == {0, 999}

FormatInit ==
    /\ now = SesT0
    /\ McpIdle
    /\ stateFile = NoStateFile
    /\ start_time = PyNone
    /\ last_elapsed = PyNone
    /\ format \in {"short", "long"}
    /\ \E h \in 0..MaxFormatHours, m \in FormatMinutes, s \in FormatSeconds,
          f \in FormatMillis :
            LET d == IntValue(((h * 60 + m) * 60 + s) * 1000 + f)
            IN  /\ total_duration_ms = d
                /\ context = Payload("object", d)
    /\ sesOp = "set_context"
    /\ sesArg = ""
    /\ sesRet = NoRet
    /\ sesRaised = NoException
    /\ sesReads = 0
    /\ sesWrites = 0
    /\ sesInitialized = FALSE
    /\ roundTrip = IdleTrip

FormatNext == SessionGetOutput

SpecFormat == FormatInit /\ [][FormatNext]_vars

----------------------------------------------------------------------------
(* Claims about MCPStatusModule                                            *)

\* C1: once a refresh has happened, a get_output() call made while
\* now - last_update <= 5 s runs no probe, opens no config file and leaves
\* the cached server set and last_update unchanged.
C1_CacheHit ==
    [][ (mcpOp' = "get_output" /\ last_update # 0
            /\ now - last_update <= CacheTimeout)
        => (/\ mcpProbes' = 0
            /\ mcpOpened' = << >>
            /\ servers' = servers
            /\ last_update' = last_update) ]_vars

\* A get_output() served from a non-empty cache exactly CacheTimeout old.
C1_Witness ==
    /\ mcpOp = "get_output"
    /\ mcpProbes = 0
    /\ DOMAIN servers # {}
    /\ now - last_update = CacheTimeout

\* C2: a get_output() call made more than 5 s after the last refresh runs the
\* probe again, also when that refresh yielded no servers.
C2_ExpiryRefetches ==
    [][ (mcpOp' = "get_output" /\ last_update # 0
            /\ now - last_update > CacheTimeout)
        => mcpProbes' >= 1 ]_vars

\* The names each source yields on its own in the current environment.
NamesOf(list) == { list[i].name : i \in 1..Len(list) }
ProbeNames == NamesOf(_get_from_claude_command(probeEnv).list)
ConfigNames == NamesOf(_get_from_config(configEnv).list)

\* C3: get_output() and refresh() never raise, get_output() returns a
\* ModuleOutput, and after a refresh the cache holds the names of both
\* sources, a failed source counting as empty.
C3_NeverRaises ==
    mcpOp \in {"get_output", "refresh"} =>
        /\ mcpRaised = NoException
        /\ mcpOp = "get_output" => mcpRet.kind = "ModuleOutput"
        /\ mcpProbes >= 1 => DOMAIN servers = ProbeNames \cup ConfigNames

\* C4: a name the probe reports as connected and the config file lists too
\* is cached once, with status running.
C4_ProbeOverridesConfig ==
    (mcpOp \in {"get_output", "refresh"} /\ mcpProbes >= 1
        /\ mcpRaised = NoException) =>
        \A n \in ProbeNames \cap ConfigNames :
            n \in DOMAIN servers /\ servers[n].status = "running"

\* The table of C5, over the counts of a server set.
SummaryTable(srv) ==
    LET running == CountStatus(srv, "running")
        errors == CountStatus(srv, "error")
        total == Cardinality(DOMAIN srv)
    IN  IF total = 0
        THEN [text |-> "no MCP servers", color |-> "gray", status |-> "SUCCESS"]
        ELSE IF errors > 0
        THEN [text |-> ErrorsText(errors), color |-> "red", status |-> "ERROR"]
        ELSE IF running < total
        THEN [text |-> RunningText(running, total), color |-> "yellow",
              status |-> "WARNING"]
        ELSE [text |-> RunningText(running, total), color |-> "green",
              status |-> "SUCCESS"]

\* C5: get_output() returns the text, color and status of the table: no
\* servers -> gray SUCCESS; errors > 0 -> "N errors" red ERROR; running <
\* total -> "r/t running" yellow WARNING; else "r/t running" green SUCCESS.
C5_Summary ==
    (mcpOp = "get_output" /\ mcpRaised = NoException) =>
        /\ mcpRet.kind = "ModuleOutput"
        /\ [text |-> mcpRet.text, color |-> mcpRet.color, status |-> mcpRet.status]
              = SummaryTable(servers)

\* A summary of a set with a running server and a server in error.
C5_Witness ==
    /\ mcpOp = "get_output"
    /\ mcpRet.kind = "ModuleOutput"
    /\ mcpRet.status = "ERROR"
    /\ CountStatus(servers, "running") >= 1
    /\ CountStatus(servers, "unknown") >= 1

----------------------------------------------------------------------------
(* Claims about SessionTimeModule                                          *)

\* Whether a payload carries a total_duration_ms.
CarriesDuration(payload) ==
    payload.cost = "object" /\ payload.duration.tag = "int"

\* The output get_output() gives for an elapsed time of ms.
OutputFor(ms) ==
    ModuleOutput(_format_elapsed(format, ms), "stopwatch", ColorOf(ms), "SUCCESS")

\* C6: get_output() uses the total_duration_ms of the most recent
\* set_context payload when that payload carries one, otherwise
\* now - start_time when start_time is set, otherwise it returns the
\* placeholder.
C6_ElapsedSource ==
    (sesOp = "get_output" /\ sesRaised = NoException) =>
        IF CarriesDuration(context)
        THEN sesRet = OutputFor(context.duration.v)
        ELSE IF start_time # PyNone
        THEN sesRet = OutputFor(now - start_time.ms)
        ELSE sesRet = PlaceholderOutput

\* The elapsed time get_output() works from, when it has one.
ElapsedUsed ==
    IF total_duration_ms # PyNone THEN total_duration_ms.v
    ELSE now - start_time.ms

\* C7: the status of get_output() is SUCCESS; the colour is gray for the
\* placeholder only, green from 2 h, yellow from 1 h to below 2 h, blue
\* below 1 h; 7,500,000 ms gives green and a start_time 90 minutes back
\* without context gives yellow.
C7_ColourBands ==
    (sesOp = "get_output" /\ sesRet.kind = "ModuleOutput") =>
        /\ sesRet.status = "SUCCESS"
        /\ IF total_duration_ms = PyNone /\ start_time = PyNone
           THEN sesRet.color = "gray" /\ sesRet.text = "--:--"
           ELSE /\ ElapsedUsed >= 7200000 => sesRet.color = "green"
                /\ (3600000 <= ElapsedUsed /\ ElapsedUsed < 7200000)
                        => sesRet.color = "yellow"
                /\ ElapsedUsed < 3600000 => sesRet.color = "blue"
                /\ total_duration_ms = IntValue(7500000) => sesRet.color = "green"
                /\ (total_duration_ms = PyNone /\ now - start_time.ms = 5400000)
                        => sesRet.color = "yellow"

\* A get_output() without context exactly one hour after start_time.
C7_Witness ==
    /\ sesOp = "get_output"
    /\ sesRet.kind = "ModuleOutput"
    /\ total_duration_ms = PyNone
    /\ start_time # PyNone
    /\ now - start_time.ms = 3600000
    /\ sesRet.color = "yellow"

\* f"{n:02d}" of a natural number.
ZeroPad2(n) == IF n < 10 THEN "0" \o IntToStr(n) ELSE IntToStr(n)

\* C8: for s whole elapsed seconds, h = s div 3600, m = (s mod 3600) div 60,
\* sec = s mod 60: short is "{h}h {m}m" from 3600 s, "{s div 60}m {sec}s"
\* from 60 s, "{s}s" below; long is zero-padded HH:MM:SS, hours not wrapped.
C8_Formatting ==
    (sesOp = "get_output" /\ sesRet.kind = "ModuleOutput"
        /\ total_duration_ms # PyNone) =>
        LET s == total_duration_ms.v \div 1000
            h == s \div 3600
            m == (s % 3600) \div 60
            sec == s % 60
        IN  /\ h * 3600 + m * 60 + sec = s /\ m < 60 /\ sec < 60
            /\ format = "short" =>
                sesRet.text =
                    IF s >= 3600 THEN IntToStr(h) \o "h " \o IntToStr(m) \o "m"
                    ELSE IF s >= 60
                    THEN IntToStr(s \div 60) \o "m " \o IntToStr(sec) \o "s"
                    ELSE IntToStr(s) \o "s"
            /\ format = "long" =>
                sesRet.text = ZeroPad2(h) \o ":" \o ZeroPad2(m) \o ":" \o ZeroPad2(sec)
            /\ (s = 7500 /\ format = "short") => sesRet.text = "2h 5m"
            /\ (s = 5400 /\ format = "short") => sesRet.text = "1h 30m"
            /\ (s = 7500 /\ format = "long") => sesRet.text = "02:05:00"
            /\ (s = 90000 /\ format = "long") => sesRet.text = "25:00:00"
            /\ (s = 59 /\ format = "short") => sesRet.text = "59s"
            /\ (s = 1859 /\ format = "short") => sesRet.text = "30m 59s"

\* 7,500,000 ms in the short format.
C8_Witness ==
    /\ sesOp = "get_output"
    /\ total_duration_ms = IntValue(7500000)
    /\ format = "short"
    /\ sesRet.kind = "ModuleOutput"
    /\ sesRet.text = "2h 5m"

----------------------------------------------------------------------------
(* Claims about the lifecycle of both modules                              *)

\* C11: __init__ and initialize() of MCPStatusModule run no probe and open
\* no config file, so a probe happens only inside get_output() or refresh();
\* and get_output() called before initialize() returns a ModuleOutput and
\* does not raise, for SessionTimeModule without reading or writing the
\* state file.
C11_Deferred ==
    /\ mcpOp \in {"__init__", "initialize"} =>
          /\ mcpProbes = 0
          /\ mcpOpened = << >>
          /\ mcpRaised = NoException
    /\ (mcpProbes >= 1 \/ mcpOpened # << >>) => mcpOp \in {"get_output", "refresh"}
    /\ (mcpOp = "get_output" /\ ~mcpInitialized) =>
          /\ mcpRaised = NoException
          /\ mcpRet.kind = "ModuleOutput"
    /\ (sesOp = "get_output" /\ ~sesInitialized) =>
          /\ sesRaised = NoException
          /\ sesRet.kind = "ModuleOutput"
          /\ sesReads = 0
          /\ sesWrites = 0

\* C12: initialize(), set_context(), get_output() and cleanup() of
\* SessionTimeModule do not raise, whatever the state file and the context
\* payload are, and get_output() returns the placeholder or a formatted
\* duration.
C12_Absorbs ==
    sesOp \in {"initialize", "set_context", "get_output", "cleanup"} =>
        /\ sesRaised = NoException
        /\ sesOp = "get_output" =>
              /\ sesRet.kind = "ModuleOutput"
              /\ \/ sesRet = PlaceholderOutput
                 \/ /\ last_elapsed # PyNone
                    /\ sesRet = OutputFor(last_elapsed.ms)

\* C13: the first initialize() of an instance, when it returns, has loaded
\* the start_time and format the state file holds, or else set start_time
\* to the current time; initialize() never writes the state file; after it
\* returns start_time is set, it stays set in every later call on the
\* instance, and a get_output() made with start_time set returns a
\* formatted duration, never the "--:--" placeholder.
C13_Initialize ==
    [][ /\ (sesOp' = "initialize" /\ ~sesInitialized /\ sesRaised' = NoException) =>
              IF stateFile.kind = "object" /\ stateFile.start.valid
              THEN /\ start_time' = Datetime(fromisoformat(stateFile.start))
                   /\ stateFile.format # FormatAbsent => format' = stateFile.format
              ELSE start_time' = Datetime(now)
        /\ sesOp' = "initialize" =>
              /\ stateFile' = stateFile
              /\ sesWrites' = 0
              /\ sesRaised' = NoException => start_time' # PyNone
        /\ (sesOp' # "__init__" /\ start_time # PyNone) => start_time' # PyNone
        /\ (sesOp' = "get_output" /\ start_time # PyNone) =>
              /\ sesRaised' = NoException
              /\ sesRet'.kind = "ModuleOutput"
              /\ sesRet' # PlaceholderOutput
              /\ sesRet'.text # "--:--"
              /\ last_elapsed' # PyNone
              /\ sesRet' = OutputFor(last_elapsed'.ms) ]_vars

\* Whether the state file holds a start_time (a parseable, non-null one).
HoldsStartTime(file) == file.kind = "object" /\ file.start.valid

\* C14: no call other than reset(), on an initialised instance or not,
\* replaces a start_time the state file holds with null or with another
\* time.
C14_StartTimeKept ==
    [][ (sesOp' # "reset" /\ HoldsStartTime(stateFile)) =>
            /\ HoldsStartTime(stateFile')
            /\ fromisoformat(stateFile'.start) = fromisoformat(stateFile.start) ]_vars

----------------------------------------------------------------------------
(* Further claims about MCPStatusModule                                    *)

\* The candidates that exist, by their place in the probing order (1 the
\* home default, 2 the XDG-style path, 3 the environment-variable path),
\* and the names listed by a file that parses to an object.
ExistingCandidates == { i \in 1..Len(configEnv) : configEnv[i].kind # "missing" }
ListedNames(file) ==
    IF file.kind = "object"
    THEN { file.items[k].name : k \in 1..Len(file.items) }
    ELSE {}

\* C16: a refresh that reaches the config discovery (its probe did not
\* raise) opens the first candidate, in the order home, XDG, environment,
\* that exists, and no other; when that file is unreadable, malformed or
\* lists no servers, or when no candidate exists, the refresh does not
\* raise and the cache holds the probe's names only, whatever later
\* candidates list; otherwise the config names it caches are those of that
\* file.
C16_ConfigDiscovery ==
    (mcpOp \in {"get_output", "refresh"} /\ mcpProbes >= 1
        /\ probeEnv.kind # "permission") =>
        IF ExistingCandidates = {}
        THEN /\ mcpOpened = << >>
             /\ mcpRaised = NoException
             /\ DOMAIN servers = ProbeNames
        ELSE LET first == CHOOSE i \in ExistingCandidates :
                            \A j \in ExistingCandidates : i <= j
             IN  /\ mcpOpened # << >>
                 /\ \A k \in 1..Len(mcpOpened) : mcpOpened[k] = first
                 /\ (\/ configEnv[first].kind \in {"unreadable", "malformed"}
                     \/ configEnv[first] = ObjectFile(<< >>)) =>
                       /\ mcpRaised = NoException
                       /\ DOMAIN servers = ProbeNames
                 /\ mcpRaised = NoException =>
                       /\ Len(mcpOpened) = mcpProbes
                       /\ DOMAIN servers =
                            ProbeNames \cup ListedNames(configEnv[first])

\* A refresh that opened a malformed home file only, while the
\* environment-variable file lists a server.
C16_Witness ==
    /\ mcpOp = "refresh"
    /\ mcpRaised = NoException
    /\ configEnv[1] = MalformedFile
    /\ configEnv[3] = ObjectFile(<<Item("c", FullConfig)>>)
    /\ mcpOpened = <<1>>
    /\ "c" \notin DOMAIN servers

\* C17: every cached server has status running or unknown, so the error
\* count is 0 and get_output() returns status SUCCESS or WARNING, never
\* ERROR or the color red.
C17_NoErrorState ==
    /\ \A n \in DOMAIN servers : servers[n].status \in {"running", "unknown"}
    /\ CountStatus(servers, "error") = 0
    /\ (mcpOp = "get_output" /\ mcpRet.kind = "ModuleOutput") =>
          /\ mcpRet.status \in {"SUCCESS", "WARNING"}
          /\ mcpRet.color # "red"
          /\ mcpRet.icon # "red_circle"

\* A get_output() over a cache with a server the probe reported and one
\* only the config file lists, while the probe's output has a line of a
\* server that failed to connect.
C17_Witness ==
    /\ mcpOp = "get_output"
    /\ mcpRet.kind = "ModuleOutput"
    /\ mcpRet.status = "WARNING"
    /\ CountStatus(servers, "running") >= 1
    /\ CountStatus(servers, "unknown") >= 1
    /\ probeEnv.kind = "exit0"
    /\ \E k \in 1..Len(probeEnv.stdout) : probeEnv.stdout[k] = FailedLine("b")
    /\ mcpProbes = 1

\* C18: every refresh() runs the probe once and reads the config, whatever
\* the age of the cache; it leaves as the cached set exactly the names the
\* two sources yield now (nothing of an earlier refresh survives unless it
\* is fetched again) and sets last_update to the current time; and a
\* refresh() that follows a refresh() with the sources unchanged leaves the
\* same cached set, hence the same summary.
C18_RefreshIdempotent ==
    [][ mcpOp' = "refresh" =>
            /\ mcpProbes' = 1
            /\ ExistingCandidates # {} => mcpOpened' # << >>
            /\ DOMAIN servers' = ProbeNames \cup ConfigNames
            /\ last_update' = now'
            /\ mcpOp = "refresh" =>
                  /\ servers' = servers
                  /\ SummaryTable(servers') = SummaryTable(servers) ]_vars

\* C19: a get_output() call runs the probe at most once: its first-fetch
\* branch and its cache-expiry branch never both refresh, whatever the
\* cache and however the clock advances.
C19_AtMostOneProbe ==
    mcpOp = "get_output" => mcpProbes <= 1

====
